---- MODULE Spec2Model ----
(***************************************************************************)
(* A model of the GAM access service (app/gam.py, app/main.py):            *)
(*   - the access granter: grant_access looping over network codes and     *)
(*     grant_admin_for_email with its remote UserService calls;            *)
(*   - the network lister with its module-level cache;                     *)
(*   - the date range resolver and the report endpoints that call it.      *)
(* Python's None is the empty tuple, a present value v is <<v>>.           *)
(***************************************************************************)
EXTENDS Integers, Sequences, FiniteSets, TLC

None == <<>>
Some(v) == <<v>>
Val(o) == o[1]

(***************************************************************************)
(* Bounds of the model.                                                    *)
(***************************************************************************)
MaxBatch == 3        \* longest list of network codes in one grant request
MaxFaults == 1       \* remote faults injected over a run
MaxExternal == 1     \* role changes made by actors other than this service
MaxTicks == 2        \* clock advances over a run
MaxDays == 3         \* midnights passed over a run

(***************************************************************************)
(* The remote platform: networks, roles, users.                            *)
(***************************************************************************)
Networks == {"1001", "2002"}
Requests == {"r1", "r2"}

Email(l, d) == [local |-> l, domain |-> d]
Emails == {Email("ann", "x.io"), Email("bob", "x.io")}

Role(n, i) == [name |-> n, id |-> i]

\* The role lists getAllRoles may answer with: the Administrator id differs
\* per network, a name differing in case is another role, an id may be absent.
RoleConfigs ==
    { << Role("Administrator", Some(1)), Role("Trafficker", Some(2)) >>,
      << Role("Trafficker", Some(2)), Role("Administrator", Some(7)) >>,
      << Role("administrator", Some(1)), Role("Trafficker", Some(2)) >>,
      << Role("Administrator", None), Role("Administrator", Some(7)),
         Role("Trafficker", Some(2)) >> }

User(i, e, r, n, a) == [id |-> i, email |-> e, roleId |-> r, name |-> n, isActive |-> a]

RoleNotFoundMsg == "Administrator role not found in this network."
ServerFaultMsg == "GoogleAdsServerFault"
UniqueErrorMsg == "UniqueError.NOT_UNIQUE"
NotFoundMsg == "NotFoundError.USER_NOT_FOUND"
BuildErrorMsg == "service account key could not be loaded"

VARIABLES
    roles,        \* network -> the role list of the network
    users,        \* network -> the set of users of the network
    nextId,       \* network -> the id the platform assigns next
    users0,       \* history: users at the start
    ext,          \* history: network -> role changes made by other actors
    faults,       \* history: remote faults injected so far
    createCalls,  \* history: network -> email -> createUsers calls processed
    pc,           \* request -> position in grant_access
    email,        \* request -> body.email
    nets,         \* request -> networks
    idx,          \* request -> index of the code the loop is at
    adminRole,    \* request -> admin_role_id of the running call
    existing,     \* request -> the user find_user_by_email returned
    results,      \* request -> results
    ops,          \* history: request -> remote operations of the running call
    callLog,      \* history: request -> per finished call, its operations
    before,       \* history: request -> the requests answered when it arrived
    body,         \* request -> body.networks
    envRead,      \* request -> the GAM_NETWORKS value _env_networks read, if called
    rejection     \* request -> the HTTPException grant_access raised

grantVars == << roles, users, nextId, users0, ext, faults, createCalls, pc, email,
                nets, idx, adminRole, existing, results, ops, callLog, before,
                body, envRead, rejection >>

VARIABLES
    clock,             \* time.time(), in seconds
    ticks,             \* history: clock advances so far
    remote,            \* what NetworkService.getAllNetworks answers now
    network_cache,     \* gam.py _network_cache
    network_cache_ts,  \* gam.py _network_cache_ts
    cacheFetchedAt,    \* history: when the list in _network_cache was fetched
    lpc,               \* worker -> position in list_accessible_networks_cached
    force_refresh,     \* worker -> the argument of the running call
    now,               \* worker -> its local now
    networks,          \* worker -> its local networks
    fetchedAt,         \* history: worker -> when its local networks was fetched
    fetched,           \* history: worker -> the running call enumerated remotely
    returned           \* worker -> what the last call returned

cacheVars == << clock, ticks, remote, network_cache, network_cache_ts, cacheFetchedAt,
                lpc, force_refresh, now, networks, fetchedAt, fetched, returned >>

VARIABLES
    today,      \* date.today(), as a day number
    rpc,        \* position of the report request being handled
    endpoint,   \* the report endpoint called
    query,      \* its range, start_date and end_date parameters
    resolved,   \* what _resolve_dates_or_400 returned
    dataCalls,  \* the report data functions invoked for the request
    response    \* the HTTP status of the response

dateVars == << today, rpc, endpoint, query, resolved, dataCalls, response >>

vars == << grantVars, cacheVars, dateVars >>

\* gam.py: _results(page), then users[0] if users else None, for the page
\* the statement WHERE email = :val selects.
Matching(us, e) == {u \in us : u.email = e}

\* get_admin_role_id matching the name whatever its case
get_admin_role_id_anycase(rl) ==
    LET at == {i \in 1..Len(rl) : rl[i].name \in {"Administrator", "administrator"}}
    IN IF at = {} THEN None
       ELSE LET first == CHOOSE i \in at : \A j \in at : i <= j
            IN rl[first].id

\* gam.py get_admin_role_id: the first role named exactly "Administrator";
\* its id, or no id (the raise) when there is none or its id is None.
get_admin_role_id(rl) ==
    LET at == {i \in 1..Len(rl) : rl[i].name = "Administrator"}
    IN IF at = {} THEN None
       ELSE LET first == CHOOSE i \in at : \A j \in at : i <= j
            IN rl[first].id

\* gam.py create_user_as_admin: the one user record passed to createUsers.
create_user_as_admin(e, roleId) ==
    [name |-> e.local, email |-> e, roleId |-> roleId, isActive |-> TRUE]

\* update_user_role sending a display name along with the role
update_user_role_named(userId, roleId) ==
    [id |-> userId, roleId |-> roleId, name |-> "Administrator"]

\* gam.py update_user_role: the one user record passed to updateUsers.
update_user_role(userId, roleId) ==
    [id |-> userId, roleId |-> roleId]

\* The platform's createUsers: assigns the id, stores the fields sent.
RemoteCreate(us, id, fields) ==
    us \cup {User(id, fields.email, fields.roleId, fields.name, fields.isActive)}

\* The platform's updateUsers: overwrites the fields the request carries.
ApplyFields(u, req) ==
    [f \in DOMAIN u |-> IF f \in DOMAIN req THEN req[f] ELSE u[f]]

RemoteUpdate(us, req) ==
    {IF u.id = req.id THEN ApplyFields(u, req) ELSE u : u \in us}

\* main.py GrantResult
GrantResult(network, status, userId, roleId, error) ==
    [network |-> network, status |-> status, userId |-> userId,
     roleId |-> roleId, error |-> error]

NetLists == UNION {[1..k -> Networks] : k \in 1..MaxBatch}

Code(r) == nets[r][idx[r]]

(***************************************************************************)
(* Start of a run: every network has some role list and some users.        *)
(***************************************************************************)
\* the id of the role named Trafficker, which every role list has
TraffickerId(rl) ==
    Val(rl[CHOOSE i \in 1..Len(rl) : rl[i].name = "Trafficker"].id)

InitRoleOf(rl, kind) ==
    IF kind = "plain" THEN 2
    ELSE IF get_admin_role_id(rl) = None THEN 1
    ELSE Val(get_admin_role_id(rl))

InitId(e) == IF e.local = "ann" THEN 11 ELSE 12

InitKinds ==
    { [e \in Emails |-> "none"],
      [e \in Emails |-> IF e.local = "ann" THEN "plain" ELSE "none"],
      [e \in Emails |-> IF e.local = "ann" THEN "admin" ELSE "plain"] }

InitUsers(rl, k) ==
    {User(InitId(e), e, InitRoleOf(rl, k[e]), e.local, TRUE) : e \in {x \in Emails : k[x] # "none"}}

GrantInit ==
    /\ roles \in [Networks -> RoleConfigs]
    /\ \E k \in [Networks -> InitKinds] :
          users = [n \in Networks |-> InitUsers(roles[n], k[n])]
    /\ users0 = users
    /\ nextId = [n \in Networks |-> 13]
    /\ ext = [n \in Networks |-> 0]
    /\ faults = 0
    /\ createCalls = [n \in Networks |-> [e \in Emails |-> 0]]
    /\ pc = [r \in Requests |-> "idle"]
    /\ email = [r \in Requests |-> None]
    /\ nets = [r \in Requests |-> <<>>]
    /\ idx = [r \in Requests |-> 0]
    /\ adminRole = [r \in Requests |-> None]
    /\ existing = [r \in Requests |-> None]
    /\ results = [r \in Requests |-> <<>>]
    /\ ops = [r \in Requests |-> {}]
    /\ callLog = [r \in Requests |-> <<>>]
    /\ before = [r \in Requests |-> {}]
    /\ body = [r \in Requests |-> None]
    /\ envRead = [r \in Requests |-> None]
    /\ rejection = [r \in Requests |-> None]

(***************************************************************************)
(* main.py grant_access: the loop over the network codes.                  *)
(***************************************************************************)
\* where the loop goes after the body for code number i of n returned
AfterCall(i, n) == IF i < n THEN "build" ELSE "done"

\* a loop that an exception ends
AfterExceptionAbort(i, n) == "done"

\* where the loop goes after an except clause handled code number i of n
AfterException(i, n) == IF i < n THEN "build" ELSE "done"

\* results.append(GrantResult(network=code, **out))
Returned(r, res, used) ==
    /\ results' = [results EXCEPT ![r] = Append(@, res)]
    /\ callLog' = [callLog EXCEPT ![r] =
                      Append(@, [ops |-> used, raised |-> FALSE, ext |-> ext[Code(r)]])]
    /\ ops' = [ops EXCEPT ![r] = {}]
    /\ idx' = [idx EXCEPT ![r] = IF AfterCall(@, Len(nets[r])) = "build" THEN @ + 1 ELSE @]
    /\ pc' = [pc EXCEPT ![r] = AfterCall(idx[r], Len(nets[r]))]
    /\ adminRole' = [adminRole EXCEPT ![r] = None]
    /\ existing' = [existing EXCEPT ![r] = None]

\* except ... as e: results.append(GrantResult(network=code, status="error", error=str(e)))
ErrorResult(code, msg) == GrantResult(code, "error", None, None, Some(msg))

Raised(r, msg, used) ==
    /\ results' = [results EXCEPT ![r] = Append(@, ErrorResult(Code(r), msg))]
    /\ callLog' = [callLog EXCEPT ![r] =
                      Append(@, [ops |-> used, raised |-> TRUE, ext |-> ext[Code(r)]])]
    /\ ops' = [ops EXCEPT ![r] = {}]
    /\ idx' = [idx EXCEPT ![r] = IF AfterException(@, Len(nets[r])) = "build" THEN @ + 1 ELSE @]
    /\ pc' = [pc EXCEPT ![r] = AfterException(idx[r], Len(nets[r]))]
    /\ adminRole' = [adminRole EXCEPT ![r] = None]
    /\ existing' = [existing EXCEPT ![r] = None]

\* the values the environment may hold for GAM_NETWORKS: unset, or a text,
\* written as its commas, its blanks and its words (runs of other characters)
EnvValues ==
    { None,
      Some(<< >>),
      Some(<< " ", ",", " " >>),
      Some(<< "1001" >>),
      Some(<< " ", "1001", ",", ",", "2002", " " >>) }

\* os.getenv("GAM_NETWORKS", "")
Getenv(v) == IF v = None THEN << >> ELSE Val(v)

\* raw.split(","): the pieces between the commas, one piece for an empty text
RECURSIVE Split(_)
Split(raw) ==
    IF \A i \in 1..Len(raw) : raw[i] # ","
    THEN << raw >>
    ELSE LET c == CHOOSE i \in 1..Len(raw) :
                     raw[i] = "," /\ \A j \in 1..(i - 1) : raw[j] # ","
         IN << SubSeq(raw, 1, c - 1) >> \o Split(SubSeq(raw, c + 1, Len(raw)))

\* n.strip(): the piece without its leading and trailing blanks
RECURSIVE Strip(_)
Strip(piece) ==
    IF piece = << >> THEN << >>
    ELSE IF Head(piece) = " " THEN Strip(Tail(piece))
    ELSE IF piece[Len(piece)] = " " THEN Strip(SubSeq(piece, 1, Len(piece) - 1))
    ELSE piece

\* the text of a stripped piece, which in EnvValues is one word
Text(piece) == IF piece = << >> THEN "" ELSE piece[1]

\* the stripped pieces, blank ones included
RECURSIVE StripAll(_)
StripAll(pieces) ==
    IF pieces = << >> THEN << >>
    ELSE << Text(Strip(Head(pieces))) >> \o StripAll(Tail(pieces))

\* _env_networks keeping the blank entries
env_networks_unfiltered(v) == StripAll(Split(Getenv(v)))

\* main.py _env_networks: [n.strip() for n in raw.split(",") if n.strip()]
_env_networks(v) == SelectSeq(StripAll(Split(Getenv(v))), LAMBDA n : n # "")

\* body.networks or ...: None and the empty list are false
Truthy(b) == b # None /\ Val(b) # << >>

\* HTTPException(status_code=400, detail=...)
NoNetworks ==
    [status_code |-> 400, detail |-> "No networks provided and GAM_NETWORKS env not set."]

\* what body.networks may be: absent, empty, or a list of codes
Bodies == {None, Some(<< >>)} \cup {Some(l) : l \in NetLists}

\* grant_access up to the loop: the body's email and networks
Start(r, bodies) ==
    /\ pc[r] = "idle"
    /\ UNCHANGED << cacheVars, dateVars >>
    /\ before' = [before EXCEPT ![r] = {q \in Requests : pc[q] = "done"}]
    /\ \E e \in Emails, b \in bodies, v \in EnvValues :
          LET ns == IF Truthy(b) THEN Val(b) ELSE _env_networks(v)
          IN /\ email' = [email EXCEPT ![r] = Some(e)]
             /\ body' = [body EXCEPT ![r] = b]
             /\ envRead' = [envRead EXCEPT ![r] = IF Truthy(b) THEN None ELSE Some(v)]
             /\ nets' = [nets EXCEPT ![r] = ns]
             /\ IF ns = <<>>
                THEN /\ rejection' = [rejection EXCEPT ![r] = Some(NoNetworks)]
                     /\ pc' = [pc EXCEPT ![r] = "rejected"]
                ELSE /\ UNCHANGED rejection
                     /\ pc' = [pc EXCEPT ![r] = "build"]
    /\ idx' = [idx EXCEPT ![r] = 1]
    /\ UNCHANGED << roles, users, nextId, users0, ext, faults, createCalls,
                    adminRole, existing, results, ops, callLog >>

\* client = build_client(network_code=code)
Build(r) ==
    /\ pc[r] = "build"
    /\ UNCHANGED << cacheVars, dateVars, before, body, envRead, rejection >>
    /\ pc' = [pc EXCEPT ![r] = "roles"]
    /\ UNCHANGED << roles, users, nextId, users0, ext, faults, createCalls, email,
                    nets, idx, adminRole, existing, results, ops, callLog >>

\* build_client or a remote call raises: the platform or the transport fails
Fault(r) ==
    /\ pc[r] \in {"build", "roles", "find", "create", "update"}
    /\ UNCHANGED << cacheVars, dateVars, before, body, envRead, rejection >>
    /\ faults < MaxFaults
    /\ faults' = faults + 1
    /\ Raised(r, IF pc[r] = "build" THEN BuildErrorMsg ELSE ServerFaultMsg, ops[r])
    /\ UNCHANGED << roles, users, nextId, users0, ext, createCalls, email, nets >>

(***************************************************************************)
(* gam.py grant_admin_for_email, one action per remote call.               *)
(***************************************************************************)
\* admin_role_id = get_admin_role_id(client)
GetRoles(r) ==
    /\ pc[r] = "roles"
    /\ UNCHANGED << cacheVars, dateVars, before, body, envRead, rejection >>
    /\ LET rid == get_admin_role_id(roles[Code(r)])
       IN IF rid = None
          THEN /\ Raised(r, RoleNotFoundMsg, ops[r] \cup {"getAllRoles"})
               /\ UNCHANGED << roles, users, nextId, users0, ext, faults,
                               createCalls, email, nets >>
          ELSE /\ adminRole' = [adminRole EXCEPT ![r] = rid]
               /\ ops' = [ops EXCEPT ![r] = @ \cup {"getAllRoles"}]
               /\ pc' = [pc EXCEPT ![r] = "find"]
               /\ UNCHANGED << roles, users, nextId, users0, ext, faults, createCalls,
                               email, nets, idx, existing, results, callLog >>

\* the branches with the comparison of the current role turned around
BranchInverted(found, adminId) ==
    IF found = None THEN "create"
    ELSE IF Val(found).roleId = adminId THEN "update"
    ELSE "already-admin"

\* the branches without the comparison of the current role
BranchNoRoleCheck(found, adminId) ==
    IF found = None THEN "create" ELSE "update"

\* the branch grant_admin_for_email takes on what the lookup returned
Branch(found, adminId) ==
    IF found = None THEN "create"
    ELSE IF Val(found).roleId # adminId THEN "update"
    ELSE "already-admin"

\* existing = find_user_by_email(client, email), and the already-admin return
Find(r) ==
    /\ pc[r] = "find"
    /\ UNCHANGED << cacheVars, dateVars, before, body, envRead, rejection >>
    /\ LET n == Code(r)
           m == Matching(users[n], Val(email[r]))
           used == ops[r] \cup {"getUsersByStatement"}
       IN \E found \in (IF m = {} THEN {None} ELSE {Some(u) : u \in m}) :
             IF Branch(found, Val(adminRole[r])) = "already-admin"
             THEN /\ Returned(r, GrantResult(n, "already-admin", Some(Val(found).id),
                                             adminRole[r], None), used)
                  /\ UNCHANGED << roles, users, nextId, users0, ext, faults,
                                  createCalls, email, nets >>
             ELSE /\ existing' = [existing EXCEPT ![r] = found]
                  /\ ops' = [ops EXCEPT ![r] = used]
                  /\ pc' = [pc EXCEPT ![r] = Branch(found, Val(adminRole[r]))]
                  /\ UNCHANGED << roles, users, nextId, users0, ext, faults, createCalls,
                                  email, nets, idx, adminRole, results, callLog >>

\* created = create_user_as_admin(client, email, admin_role_id)
Create(r) ==
    /\ pc[r] = "create"
    /\ UNCHANGED << cacheVars, dateVars, before, body, envRead, rejection >>
    /\ LET n == Code(r)
           e == Val(email[r])
           used == ops[r] \cup {"createUsers"}
       IN /\ createCalls' = [createCalls EXCEPT ![n][e] = @ + 1]
          /\ IF Matching(users[n], e) # {}
             THEN /\ Raised(r, UniqueErrorMsg, used)
                  /\ UNCHANGED << users, nextId >>
             ELSE /\ users' = [users EXCEPT ![n] =
                         RemoteCreate(@, nextId[n], create_user_as_admin(e, Val(adminRole[r])))]
                  /\ nextId' = [nextId EXCEPT ![n] = @ + 1]
                  /\ Returned(r, GrantResult(n, "created", Some(nextId[n]),
                                             adminRole[r], None), used)
    /\ UNCHANGED << roles, users0, ext, faults, email, nets >>

\* updated = update_user_role(client, int(existing.id), admin_role_id)
Update(r) ==
    /\ pc[r] = "update"
    /\ UNCHANGED << cacheVars, dateVars, before, body, envRead, rejection >>
    /\ LET n == Code(r)
           req == update_user_role(Val(existing[r]).id, Val(adminRole[r]))
           used == ops[r] \cup {"updateUsers"}
       IN IF \A u \in users[n] : u.id # req.id
          THEN /\ Raised(r, NotFoundMsg, used)
               /\ UNCHANGED users
          ELSE /\ users' = [users EXCEPT ![n] = RemoteUpdate(@, req)]
               /\ Returned(r, GrantResult(n, "upgraded", Some(req.id),
                                          adminRole[r], None), used)
    /\ UNCHANGED << roles, nextId, users0, ext, faults, createCalls, email, nets >>

\* another administrator of the network changes a user's role
ExternalChange(n) ==
    /\ ext[n] < MaxExternal
    /\ UNCHANGED << cacheVars, dateVars, before, body, envRead, rejection >>
    /\ \E u \in users[n] :
          /\ u.roleId # TraffickerId(roles[n])
          /\ users' = [users EXCEPT ![n] =
                          (@ \ {u}) \cup {[u EXCEPT !.roleId = TraffickerId(roles[n])]}]
    /\ ext' = [ext EXCEPT ![n] = @ + 1]
    /\ UNCHANGED << roles, nextId, users0, faults, createCalls, pc, email, nets, idx,
                    adminRole, existing, results, ops, callLog >>

(***************************************************************************)
(* gam.py: the network lister and its cache.                               *)
(***************************************************************************)
NETWORK_CACHE_TTL_SECONDS == 24 * 60 * 60

Workers == {"w1", "w2"}

Network(code, name) == [networkCode |-> code, displayName |-> name]

\* what getAllNetworks may answer: codes are numbers, an entry may lack one
RemoteLists ==
    { << Network(Some(1001), Some("Alpha")) >>,
      << Network(Some(1001), Some("Alpha")), Network(None, Some("Ghost")),
         Network(Some(2002), None) >> }

\* str(code) of the network codes of the model
Str(code) == IF code = 1001 THEN "1001" ELSE "2002"

\* gam.py _fetch_networks_from_api: entries without a code are dropped,
\* the code becomes a string, the name is kept
RECURSIVE Normalize(_)
Normalize(raw) ==
    IF raw = <<>> THEN <<>>
    ELSE LET n == Head(raw)
         IN (IF n.networkCode # None
             THEN << Network(Str(Val(n.networkCode)), n.displayName) >>
             ELSE <<>>) \o Normalize(Tail(raw))

\* the condition with the comparison turned around
CacheFreshReversed(force, cache, ts, t) ==
    /\ ~force
    /\ cache # None
    /\ ts # None
    /\ t - Val(ts) > 24 * 60 * 60

\* the condition without the force_refresh test
CacheFreshUnforced(force, cache, ts, t) ==
    /\ cache # None
    /\ ts # None
    /\ t - Val(ts) < 24 * 60 * 60

\* gam.py list_accessible_networks_cached: the condition of the early return
CacheFresh(force, cache, ts, t) ==
    /\ ~force
    /\ cache # None
    /\ ts # None
    /\ t - Val(ts) < NETWORK_CACHE_TTL_SECONDS

CacheInit ==
    /\ clock = 0
    /\ ticks = 0
    /\ remote \in RemoteLists
    /\ network_cache = None
    /\ network_cache_ts = None
    /\ cacheFetchedAt = None
    /\ lpc = [w \in Workers |-> "idle"]
    /\ force_refresh = [w \in Workers |-> FALSE]
    /\ now = [w \in Workers |-> None]
    /\ networks = [w \in Workers |-> None]
    /\ fetchedAt = [w \in Workers |-> None]
    /\ fetched = [w \in Workers |-> FALSE]
    /\ returned = [w \in Workers |-> None]

\* a call starts: now = time.time()
ListCall(w) ==
    /\ lpc[w] \in {"idle", "done", "failed"}
    /\ UNCHANGED << grantVars, dateVars >>
    /\ \E f \in BOOLEAN : force_refresh' = [force_refresh EXCEPT ![w] = f]
    /\ now' = [now EXCEPT ![w] = Some(clock)]
    /\ fetched' = [fetched EXCEPT ![w] = FALSE]
    /\ returned' = [returned EXCEPT ![w] = None]
    /\ lpc' = [lpc EXCEPT ![w] = "check"]
    /\ UNCHANGED << clock, ticks, remote, network_cache, network_cache_ts,
                    cacheFetchedAt, networks, fetchedAt >>

\* the if: the cache is fresh, or the call goes on to fetch
ListCheck(w) ==
    /\ lpc[w] = "check"
    /\ UNCHANGED << grantVars, dateVars >>
    /\ lpc' = [lpc EXCEPT ![w] =
                  IF CacheFresh(force_refresh[w], network_cache, network_cache_ts,
                                Val(now[w]))
                  THEN "hit" ELSE "fetch"]
    /\ UNCHANGED << clock, ticks, remote, network_cache, network_cache_ts,
                    cacheFetchedAt, force_refresh, now, networks, fetchedAt, fetched,
                    returned >>

\* return _network_cache
ListReturnCached(w) ==
    /\ lpc[w] = "hit"
    /\ UNCHANGED << grantVars, dateVars >>
    /\ returned' = [returned EXCEPT ![w] = network_cache]
    /\ now' = [now EXCEPT ![w] = None]
    /\ lpc' = [lpc EXCEPT ![w] = "done"]
    /\ UNCHANGED << clock, ticks, remote, network_cache, network_cache_ts,
                    cacheFetchedAt, force_refresh, networks, fetchedAt, fetched >>

\* networks = _fetch_networks_from_api()
ListFetch(w) ==
    /\ lpc[w] = "fetch"
    /\ UNCHANGED << grantVars, dateVars >>
    /\ networks' = [networks EXCEPT ![w] = Some(Normalize(remote))]
    /\ fetchedAt' = [fetchedAt EXCEPT ![w] = Some(clock)]
    /\ fetched' = [fetched EXCEPT ![w] = TRUE]
    /\ lpc' = [lpc EXCEPT ![w] = "store"]
    /\ UNCHANGED << clock, ticks, remote, network_cache, network_cache_ts,
                    cacheFetchedAt, force_refresh, now, returned >>

\* _fetch_networks_from_api raises: the call ends, the cache is as it was
ListFetchFails(w) ==
    /\ lpc[w] = "fetch"
    /\ UNCHANGED << grantVars, dateVars >>
    /\ fetched' = [fetched EXCEPT ![w] = TRUE]
    /\ now' = [now EXCEPT ![w] = None]
    /\ lpc' = [lpc EXCEPT ![w] = "failed"]
    /\ UNCHANGED << clock, ticks, remote, network_cache, network_cache_ts,
                    cacheFetchedAt, force_refresh, networks, fetchedAt, returned >>

\* _network_cache = networks
ListStoreCache(w) ==
    /\ lpc[w] = "store"
    /\ UNCHANGED << grantVars, dateVars >>
    /\ network_cache' = networks[w]
    /\ cacheFetchedAt' = fetchedAt[w]
    /\ lpc' = [lpc EXCEPT ![w] = "stamp"]
    /\ UNCHANGED << clock, ticks, remote, network_cache_ts, force_refresh, now,
                    networks, fetchedAt, fetched, returned >>

\* _network_cache_ts = now; return networks
ListStoreTs(w) ==
    /\ lpc[w] = "stamp"
    /\ UNCHANGED << grantVars, dateVars >>
    /\ network_cache_ts' = now[w]
    /\ returned' = [returned EXCEPT ![w] = networks[w]]
    /\ now' = [now EXCEPT ![w] = None]
    /\ networks' = [networks EXCEPT ![w] = None]
    /\ fetchedAt' = [fetchedAt EXCEPT ![w] = None]
    /\ lpc' = [lpc EXCEPT ![w] = "done"]
    /\ UNCHANGED << clock, ticks, remote, network_cache, cacheFetchedAt,
                    force_refresh, fetched >>

\* time passes: a second, or a second less than the TTL
Tick ==
    /\ ticks < MaxTicks
    /\ UNCHANGED << grantVars, dateVars >>
    /\ \E d \in {1, NETWORK_CACHE_TTL_SECONDS - 1} : clock' = clock + d
    /\ ticks' = ticks + 1
    /\ UNCHANGED << remote, network_cache, network_cache_ts, cacheFetchedAt, lpc,
                    force_refresh, now, networks, fetchedAt, fetched, returned >>

\* the networks the credentials reach change
RemoteChange ==
    /\ UNCHANGED << grantVars, dateVars >>
    /\ \E l \in RemoteLists \ {remote} : remote' = l
    /\ UNCHANGED << clock, ticks, network_cache, network_cache_ts, cacheFetchedAt, lpc,
                    force_refresh, now, networks, fetchedAt, fetched, returned >>

CacheNext ==
    \/ \E w \in Workers : ListCall(w)
    \/ \E w \in Workers : ListCheck(w)
    \/ \E w \in Workers : ListReturnCached(w)
    \/ \E w \in Workers : ListFetch(w)
    \/ \E w \in Workers : ListFetchFails(w)
    \/ \E w \in Workers : ListStoreCache(w)
    \/ \E w \in Workers : ListStoreTs(w)
    \/ Tick
    \/ RemoteChange

(***************************************************************************)
(* main.py: the date range resolver and the report endpoints.  A date is   *)
(* its day number (date.toordinal()); date - timedelta(days=k) is the day  *)
(* number less k.                                                          *)
(***************************************************************************)
FirstDay == 739052   \* 2024-06-15, the first "today" of a run

DateRange == {"today", "yesterday", "last_7_days", "last_30_days", "custom"}

\* the dates a caller passes as start_date or end_date
QueryDates == {None} \cup {Some(d) : d \in (FirstDay - 1)..(FirstDay + 1)}

Return(s, e) == [kind |-> "return", start |-> s, end |-> e, msg |-> ""]
Raise(k, m) == [kind |-> k, start |-> 0, end |-> 0, msg |-> m]

\* a resolver that also refuses a range of one day
resolve_date_range_strict(range_, start_date, end_date, t) ==
    IF range_ = "today" THEN Return(t, t)
    ELSE IF range_ = "yesterday" THEN Return(t - 1, t - 1)
    ELSE IF range_ = "last_7_days" THEN Return(t - 6, t)
    ELSE IF range_ = "last_30_days" THEN Raise("NameError", "name 'days' is not defined")
    ELSE IF start_date = None \/ end_date = None
         THEN Raise("ValueError", "start_date and end_date are required for custom range")
    ELSE IF Val(start_date) >= Val(end_date)
         THEN Raise("ValueError", "start_date cannot be after end_date")
    ELSE Return(Val(start_date), Val(end_date))

\* main.py resolve_date_range, the one the report endpoints call:
\* timedelta(days(29)) names a function days that is defined nowhere
resolve_date_range(range_, start_date, end_date, t) ==
    IF range_ = "today" THEN Return(t, t)
    ELSE IF range_ = "yesterday" THEN Return(t - 1, t - 1)
    ELSE IF range_ = "last_7_days" THEN Return(t - 6, t)
    ELSE IF range_ = "last_30_days" THEN Raise("NameError", "name 'days' is not defined")
    ELSE IF start_date = None \/ end_date = None
         THEN Raise("ValueError", "start_date and end_date are required for custom range")
    ELSE IF Val(start_date) > Val(end_date)
         THEN Raise("ValueError", "start_date cannot be after end_date")
    ELSE Return(Val(start_date), Val(end_date))

\* reporting_schemas.py resolve_date_range, which no endpoint calls
schemas_resolve_date_range(range_, start_date, end_date, t) ==
    IF range_ = "today" THEN Return(t, t)
    ELSE IF range_ = "yesterday" THEN Return(t - 1, t - 1)
    ELSE IF range_ = "last_7_days" THEN Return(t - 6, t)
    ELSE IF range_ = "last_30_days" THEN Return(t - 29, t)
    ELSE IF start_date = None \/ end_date = None
         THEN Raise("ValueError", "start_date and end_date are required for custom range")
    ELSE IF Val(start_date) > Val(end_date)
         THEN Raise("ValueError", "start_date cannot be after end_date")
    ELSE Return(Val(start_date), Val(end_date))

\* main.py _resolve_dates_or_400: a ValueError becomes HTTPException(400);
\* any other exception leaves the endpoint and the framework answers 500
StatusOfRaise(kind) == IF kind = "ValueError" THEN 400 ELSE 500

Endpoints == {"/reports/summary", "/reports/locations", "/reports/timeseries"}

\* the report data function each endpoint calls
DataFunction(ep) ==
    IF ep = "/reports/summary" THEN "fetch_summary_metrics"
    ELSE IF ep = "/reports/locations" THEN "fetch_location_breakdown"
    ELSE "fetch_timeseries"

DateInit ==
    /\ today = FirstDay
    /\ rpc = "idle"
    /\ endpoint = None
    /\ query = None
    /\ resolved = None
    /\ dataCalls = {}
    /\ response = None

\* a report request arrives
ReportCall ==
    /\ rpc \in {"idle", "done"}
    /\ UNCHANGED << grantVars, cacheVars >>
    /\ \E ep \in Endpoints : endpoint' = Some(ep)
    /\ \E rg \in DateRange, sd \in QueryDates, ed \in QueryDates :
          query' = Some([range |-> rg, start_date |-> sd, end_date |-> ed])
    /\ resolved' = None
    /\ dataCalls' = {}
    /\ response' = None
    /\ rpc' = "resolve"
    /\ UNCHANGED today

\* start, end = _resolve_dates_or_400(range, start_date, end_date)
ResolveDates ==
    /\ rpc = "resolve"
    /\ UNCHANGED << grantVars, cacheVars >>
    /\ LET q == Val(query)
           out == resolve_date_range(q.range, q.start_date, q.end_date, today)
       IN IF out.kind = "return"
          THEN /\ resolved' = Some(<< out.start, out.end >>)
               /\ rpc' = "data"
               /\ UNCHANGED response
          ELSE /\ response' = Some([status |-> StatusOfRaise(out.kind), detail |-> out.msg])
               /\ rpc' = "done"
               /\ UNCHANGED resolved
    /\ UNCHANGED << today, endpoint, query, dataCalls >>

\* the endpoint calls its report data function and answers
FetchData ==
    /\ rpc = "data"
    /\ UNCHANGED << grantVars, cacheVars >>
    /\ dataCalls' = dataCalls \cup {DataFunction(Val(endpoint))}
    /\ response' = Some([status |-> 200, detail |-> ""])
    /\ rpc' = "done"
    /\ UNCHANGED << today, endpoint, query, resolved >>

\* midnight passes
NextDay ==
    /\ today < FirstDay + MaxDays
    /\ UNCHANGED << grantVars, cacheVars >>
    /\ today' = today + 1
    /\ UNCHANGED << rpc, endpoint, query, resolved, dataCalls, response >>

DateNext ==
    \/ ReportCall
    \/ ResolveDates
    \/ FetchData
    \/ NextDay

\* one request for any list of network codes, with nobody else at work
GrantNext ==
    \/ Start("r1", Bodies)
    \/ \E r \in Requests : Build(r)
    \/ \E r \in Requests : Fault(r)
    \/ \E r \in Requests : GetRoles(r)
    \/ \E r \in Requests : Find(r)
    \/ \E r \in Requests : Create(r)
    \/ \E r \in Requests : Update(r)

\* requests for one network each, handled by concurrent workers
ConcurrentNext ==
    \/ \E r \in Requests : Start(r, {Some(l) : l \in [1..1 -> Networks]})
    \/ \E r \in Requests : Build(r)
    \/ \E r \in Requests : Fault(r)
    \/ \E r \in Requests : GetRoles(r)
    \/ \E r \in Requests : Find(r)
    \/ \E r \in Requests : Create(r)
    \/ \E r \in Requests : Update(r)
    \/ \E n \in Networks : ExternalChange(n)

(***************************************************************************)
(* Properties of the access granter.                                       *)
(***************************************************************************)
SuccessStatuses == {"created", "upgraded", "already-admin"}

\* whether call number i of request r ended by a fault of the platform or
\* of the client construction, which is no decision of the service
Faulted(r, i) == results[r][i].error \in {Some(ServerFaultMsg), Some(BuildErrorMsg)}

\* request r made the same call as request q, after q was answered, and no
\* other actor changed the network between the two calls
Repeats(q, r) ==
    /\ q \in before[r]
    /\ pc[r] = "done"
    /\ nets[r] = nets[q]
    /\ email[r] = email[q]
    /\ callLog[r][1].ext = callLog[q][1].ext

\* C1: two successive grant calls for the same email and network, with no
\* other actor changing the network in between and the platform answering,
\* return "created" and then "already-admin" for the same user.
C1_CreatedThenAlreadyAdmin ==
    \A q \in Requests : \A r \in Requests :
        (Repeats(q, r) /\ results[q][1].status = "created" /\ ~Faulted(r, 1))
        => /\ results[r][1].status = "already-admin"
           /\ results[r][1].userId = results[q][1].userId
           /\ results[r][1].roleId = results[q][1].roleId

C1_Witness ==
    \E q \in Requests : \E r \in Requests :
        /\ Repeats(q, r)
        /\ results[q][1].status = "created"
        /\ results[r][1].status = "already-admin"

\* C2: however the remote steps of grant calls for the same email and
\* network interleave, createUsers is issued at most once for that email.
C2_CreateIssuedOnce ==
    \A n \in Networks : \A e \in Emails : createCalls[n][e] <= 1

\* the id of the role named Administrator in a network that has one
AdministratorId(n) ==
    Val(roles[n][CHOOSE i \in 1..Len(roles[n]) : roles[n][i].name = "Administrator"].id)

LastResult(r) == results'[r][Len(results'[r])]

\* C3: a call that finds the email with a role other than Administrator goes
\* on to update; the update returns "upgraded" with that user's id, sets that
\* user's roleId to the Administrator role id of the network, and changes no
\* other field and no other user.
C3_UpgradeStep(r) ==
    /\ (pc[r] = "find" /\ pc'[r] # "find" /\ faults' = faults)
       => LET n == Code(r)
          IN \A u \in users[n] :
                (u.email = Val(email[r]) /\ u.roleId # AdministratorId(n))
                => (pc'[r] = "update" /\ existing'[r] = Some(u))
    /\ (pc[r] = "update" /\ pc'[r] # "update" /\ faults' = faults)
       => LET n == Code(r)
              id == Val(existing[r]).id
          IN /\ LastResult(r).status = "upgraded"
             /\ LastResult(r).userId = Some(id)
             /\ LastResult(r).roleId = Some(AdministratorId(n))
             /\ users' = [users EXCEPT ![n] =
                   {IF v.id = id THEN [v EXCEPT !.roleId = AdministratorId(n)] ELSE v : v \in @}]

C3_Upgrade == [][\A r \in Requests : C3_UpgradeStep(r)]_vars

C3_Witness ==
    \E r \in Requests : \E i \in 1..Len(results[r]) :
        /\ results[r][i].status = "upgraded"
        /\ Cardinality(users[results[r][i].network]) >= 2
        /\ \E u \in users[results[r][i].network] :
              /\ u.id = Val(results[r][i].userId)
              /\ u.email = Val(email[r])
              /\ u.roleId = Val(results[r][i].roleId)
              /\ u \notin users0[results[r][i].network]

HasAdministrator(n) == \E i \in 1..Len(roles[n]) : roles[n][i].name = "Administrator"

\* C4: in a network with no role named exactly "Administrator" every grant
\* call fails, with the role-not-found error unless the platform faulted
\* first, having issued no user lookup, create or update; the users of the
\* network are the ones it started with, other actors' changes apart.
C4_NoAdministratorRole ==
    \A n \in Networks :
        ~HasAdministrator(n)
        => /\ ext[n] = 0 => users[n] = users0[n]
           /\ \A r \in Requests :
                 /\ (pc[r] \notin {"idle", "done", "rejected"} /\ Code(r) = n)
                    => (pc[r] \in {"build", "roles"} /\ ops[r] = {})
                 /\ \A i \in 1..Len(results[r]) :
                       results[r][i].network = n
                       => /\ results[r][i].status = "error"
                          /\ callLog[r][i].ops \subseteq {"getAllRoles"}
                          /\ ~Faulted(r, i) => results[r][i].error = Some(RoleNotFoundMsg)

C4_Witness ==
    \E r \in Requests : \E i \in 1..Len(results[r]) :
        /\ ~HasAdministrator(results[r][i].network)
        /\ results[r][i].error = Some(RoleNotFoundMsg)
        /\ users[results[r][i].network] # {}

\* C5: a finished batch holds one record per requested code, in order; a
\* call that raised gives status "error" with a message and no ids, for its
\* own code only, and every other code has its own success status.
C5_OneRecordPerNetwork ==
    \A r \in Requests :
        /\ pc[r] = "done" => Len(results[r]) = Len(nets[r])
        /\ pc[r] \notin {"idle", "done"} => Len(results[r]) = idx[r] - 1
        /\ \A i \in 1..Len(results[r]) :
              /\ results[r][i].network = nets[r][i]
              /\ IF callLog[r][i].raised
                 THEN /\ results[r][i].status = "error"
                      /\ results[r][i].error \notin {None, Some("")}
                      /\ results[r][i].userId = None
                 ELSE /\ results[r][i].status \in SuccessStatuses
                      /\ results[r][i].error = None
                      /\ results[r][i].userId # None

C5_Witness ==
    \E r \in Requests :
        /\ pc[r] = "done"
        /\ Len(results[r]) = 3
        /\ results[r][1].status \in SuccessStatuses
        /\ results[r][2].status = "error"
        /\ results[r][2].error = Some(ServerFaultMsg)
        /\ results[r][3].status \in SuccessStatuses

\* a GAM_NETWORKS value that configures no default: unset, or a text of
\* commas and blanks only
NoDefault(v) == v = None \/ \A i \in 1..Len(Val(v)) : Val(v)[i] \in {",", " "}

\* C11: a request whose networks are absent or empty, read while GAM_NETWORKS
\* is unset or holds no non-blank entry, is answered 400 with no client built,
\* no remote call made and no result record; and only such a request is.
C11_NoNetworksRejected ==
    \A r \in Requests :
        /\ ( /\ pc[r] # "idle"
             /\ body[r] \in {None, Some(<< >>)}
             /\ envRead[r] # None
             /\ NoDefault(Val(envRead[r])) )
           => /\ pc[r] = "rejected"
              /\ rejection[r] # None
              /\ Val(rejection[r]).status_code = 400
              /\ results[r] = << >>
              /\ callLog[r] = << >>
              /\ ops[r] = {}
        /\ pc[r] = "rejected"
           => (body[r] \in {None, Some(<< >>)} /\ envRead[r] # None
               /\ NoDefault(Val(envRead[r])))
        /\ (pc[r] # "idle" /\ body[r] \in {None, Some(<< >>)}) => envRead[r] # None

C11_Witness ==
    \E r \in Requests :
        /\ pc[r] = "rejected"
        /\ body[r] = Some(<< >>)
        /\ envRead[r] = Some(Some(<< " ", ",", " " >>))
        /\ Val(rejection[r]).status_code = 400
        /\ results[r] = << >>

\* C12: a call that finds the email with the Administrator role id of the
\* network returns "already-admin" with that user's id and that role id,
\* having issued neither createUsers nor updateUsers, and changes no user.
C12_Step(r) ==
    (pc[r] = "find" /\ pc'[r] # "find" /\ faults' = faults)
    => LET n == Code(r)
       IN \A u \in users[n] :
             (u.email = Val(email[r]) /\ u.roleId = AdministratorId(n))
             => /\ Len(results'[r]) = Len(results[r]) + 1
                /\ LastResult(r).network = n
                /\ LastResult(r).status = "already-admin"
                /\ LastResult(r).userId = Some(u.id)
                /\ LastResult(r).roleId = Some(AdministratorId(n))
                /\ LastResult(r).error = None
                /\ callLog'[r][Len(callLog'[r])].ops = {"getAllRoles", "getUsersByStatement"}
                /\ UNCHANGED << users, nextId, createCalls >>

C12_AlreadyAdmin == [][\A r \in Requests : C12_Step(r)]_vars

C12_Witness ==
    \E r \in Requests : \E i \in 1..Len(results[r]) :
        /\ results[r][i].status = "already-admin"
        /\ callLog[r][i].ops = {"getAllRoles", "getUsersByStatement"}
        /\ users[results[r][i].network] = users0[results[r][i].network]
        /\ \E u \in users0[results[r][i].network] :
              /\ u.email = Val(email[r])
              /\ u.id = Val(results[r][i].userId)
              /\ u.roleId = Val(results[r][i].roleId)

(***************************************************************************)
(* Properties of the network lister.                                       *)
(***************************************************************************)
\* C6: a call without force_refresh that finds a cached list stamped less
\* than 86400 seconds before its now takes the early return: it returns the
\* cached list, enumerates nothing remotely and leaves list and timestamp
\* as they are.
C6_Step(w) ==
    /\ ( /\ lpc[w] = "check" /\ lpc'[w] # "check"
         /\ ~force_refresh[w]
         /\ network_cache # None /\ network_cache_ts # None
         /\ Val(now[w]) - Val(network_cache_ts) < 86400 )
       => lpc'[w] = "hit"
    /\ (lpc[w] = "hit" /\ lpc'[w] # "hit")
       => /\ lpc'[w] = "done"
          /\ returned'[w] = network_cache
          /\ ~fetched'[w]
          /\ UNCHANGED << network_cache, network_cache_ts >>

C6_CacheHit == [][\A w \in Workers : C6_Step(w)]_vars

C6_Witness ==
    \E w \in Workers :
        /\ lpc[w] = "done"
        /\ ~force_refresh[w]
        /\ ~fetched[w]
        /\ returned[w] # None
        /\ returned[w] = network_cache
        /\ clock > Val(network_cache_ts)

\* C7: a call with force_refresh goes on to the remote enumeration whatever
\* the cache holds, then stores the list it fetched, stamps the cache with
\* its now and returns that list.
C7_Step(w) ==
    force_refresh[w]
    => /\ (lpc[w] = "check" /\ lpc'[w] # "check") => lpc'[w] = "fetch"
       /\ (lpc[w] = "fetch" /\ lpc'[w] = "store")
          => (fetched'[w] /\ networks'[w] = Some(Normalize(remote)))
       /\ (lpc[w] = "store" /\ lpc'[w] # "store") => network_cache' = networks[w]
       /\ (lpc[w] = "stamp" /\ lpc'[w] # "stamp")
          => /\ network_cache_ts' = now[w]
             /\ returned'[w] = networks[w]
             /\ fetched[w]
             /\ lpc'[w] = "done"

C7_ForceRefresh == [][\A w \in Workers : C7_Step(w)]_vars

C7_Witness ==
    \E w \in Workers :
        /\ lpc[w] = "stamp"
        /\ force_refresh[w]
        /\ network_cache = networks[w]
        /\ network_cache_ts # None
        /\ Val(now[w]) - Val(network_cache_ts) < 86400
        /\ Val(now[w]) > Val(network_cache_ts)

\* C8: the timestamp of the cache is never later than the time the cached
\* list was fetched from the platform.
C8_TimestampNotAfterFetch ==
    (network_cache # None /\ network_cache_ts # None)
    => Val(network_cache_ts) <= Val(cacheFetchedAt)

(***************************************************************************)
(* Properties of the date range resolver at the report endpoints.          *)
(***************************************************************************)
PresetRange(rg, t) ==
    IF rg = "today" THEN << t, t >>
    ELSE IF rg = "yesterday" THEN << t - 1, t - 1 >>
    ELSE IF rg = "last_7_days" THEN << t - 6, t >>
    ELSE << t - 29, t >>

\* C9: for today, yesterday, last_7_days and last_30_days the resolution at
\* a report endpoint never fails and gives (today, today),
\* (today-1, today-1), (today-6, today) and (today-29, today), whatever
\* start_date and end_date are.
C9_PresetRanges ==
    [][(rpc = "resolve" /\ rpc' # "resolve" /\ Val(query).range # "custom")
       => (rpc' = "data" /\ resolved' = Some(PresetRange(Val(query).range, today)))]_vars

BadCustom(q) ==
    \/ q.start_date = None
    \/ q.end_date = None
    \/ Val(q.start_date) > Val(q.end_date)

\* C10: for custom, the resolution fails exactly when start_date or end_date
\* is missing or start_date is after end_date, and the endpoint then answers
\* 400 without having invoked a report data function; otherwise the supplied
\* pair is what the endpoint works with.
C10_CustomRange ==
    (rpc \in {"data", "done"} /\ Val(query).range = "custom")
    => IF BadCustom(Val(query))
       THEN /\ rpc = "done"
            /\ Val(response).status = 400
            /\ Val(response).detail # ""
            /\ resolved = None
            /\ dataCalls = {}
       ELSE /\ resolved = Some(<< Val(Val(query).start_date), Val(Val(query).end_date) >>)
            /\ rpc = "done" => (Val(response).status = 200 /\ dataCalls # {})

C10_Witness ==
    /\ rpc = "done"
    /\ Val(query).range = "custom"
    /\ Val(query).start_date # None
    /\ Val(query).end_date # None
    /\ Val(Val(query).start_date) > Val(Val(query).end_date)
    /\ Val(response).status = 400

\* the parts of the service a specification leaves at rest
GrantAtRest ==
    /\ roles = [n \in Networks |-> CHOOSE c \in RoleConfigs : c[1].id = Some(1) /\ c[1].name = "Administrator"]
    /\ users = [n \in Networks |-> {}]
    /\ users0 = users
    /\ nextId = [n \in Networks |-> 13]
    /\ ext = [n \in Networks |-> 0]
    /\ faults = 0
    /\ createCalls = [n \in Networks |-> [e \in Emails |-> 0]]
    /\ pc = [r \in Requests |-> "idle"]
    /\ email = [r \in Requests |-> None]
    /\ nets = [r \in Requests |-> <<>>]
    /\ idx = [r \in Requests |-> 0]
    /\ adminRole = [r \in Requests |-> None]
    /\ existing = [r \in Requests |-> None]
    /\ results = [r \in Requests |-> <<>>]
    /\ ops = [r \in Requests |-> {}]
    /\ callLog = [r \in Requests |-> <<>>]
    /\ before = [r \in Requests |-> {}]
    /\ body = [r \in Requests |-> None]
    /\ envRead = [r \in Requests |-> None]
    /\ rejection = [r \in Requests |-> None]

CacheAtRest == CacheInit /\ remote = CHOOSE l \in RemoteLists : Len(l) = 1

InitGrant == GrantInit /\ CacheAtRest /\ DateInit
InitCache == CacheInit /\ GrantAtRest /\ DateInit
InitDates == DateInit /\ GrantAtRest /\ CacheAtRest

SpecGrant == InitGrant /\ [][GrantNext]_vars
SpecConcurrent == InitGrant /\ [][ConcurrentNext]_vars
SpecCache == InitCache /\ [][CacheNext]_vars
SpecDates == InitDates /\ [][DateNext]_vars


====
